---- MODULE Spec2Model ----
(***************************************************************************)
(* Model of gopi-frame/env (src/env.go): the ${...} expansion engine, the  *)
(* dotenv file loader (Load / Override) and the typed accessor layer over  *)
(* the process environment.                                                *)
(*                                                                         *)
(* A Go string is a sequence of one-character strings.  The process        *)
(* environment is a function from the keys that are set to their values.   *)
(* A Go call that can panic returns a record with a panic flag.            *)
(***************************************************************************)
EXTENDS Integers, Sequences, FiniteSets, TLC

VARIABLES
  env,          \* the process environment: [set keys -> value]
  fs,           \* what godotenv.Read yields for each file name
  call,         \* the last call made: operation, arguments, environment before, result
  lastStrings   \* per key, the list of the last SetStrings whose write still stands

vars == <<env, fs, call, lastStrings>>

----------------------------------------------------------------------------
(* Bounds of the model *)

\* longest template drawn from the whole alphabet
MaxPlain == 3
\* longest placeholder body (the text between "${" and "}")
MaxBody == 5
\* most file names given to one Load or Override
MaxFiles == 2
\* longest list given to SetStrings
MaxListLen == 2

----------------------------------------------------------------------------
(* Strings *)

SeqsUpTo(S, n) == UNION {[1..k -> S] : k \in 0..n}

WhiteSpace == {" ", "\t", "\n", "\r"}

RECURSIVE TrimLeft(_)
TrimLeft(s) ==
  IF Len(s) > 0 /\ s[1] \in WhiteSpace THEN TrimLeft(Tail(s)) ELSE s

RECURSIVE TrimRight(_)
TrimRight(s) ==
  IF Len(s) > 0 /\ s[Len(s)] \in WhiteSpace
  THEN TrimRight(SubSeq(s, 1, Len(s) - 1))
  ELSE s

\* strings.TrimSpace
TrimSpace(s) == TrimRight(TrimLeft(s))

\* strings.ReplaceAll(s, "\\|", "|"): left to right, non-overlapping
RECURSIVE ReplaceAllEscapedPipe(_)
ReplaceAllEscapedPipe(s) ==
  IF Len(s) = 0 THEN <<>>
  ELSE IF Len(s) >= 2 /\ s[1] = "\\" /\ s[2] = "|"
       THEN <<"|">> \o ReplaceAllEscapedPipe(SubSeq(s, 3, Len(s)))
       ELSE <<s[1]>> \o ReplaceAllEscapedPipe(Tail(s))

----------------------------------------------------------------------------
(* The process environment *)

\* os.LookupEnv: the value and whether the key is set
LookupEnv(e, k) ==
  IF k \in DOMAIN e THEN [value |-> e[k], ok |-> TRUE]
  ELSE [value |-> <<>>, ok |-> FALSE]

\* os.Getenv: the empty string for a key that is not set
Getenv(e, k) == LookupEnv(e, k).value

Nul == "NUL"

HasChar(s, c) == \E i \in 1..Len(s) : s[i] = c

\* os.Setenv fails (EINVAL) on an empty key, a key holding "=" or NUL, a value holding NUL
SetenvFails(k, v) ==
  Len(k) = 0 \/ HasChar(k, "=") \/ HasChar(k, Nul) \/ HasChar(v, Nul)

\* error values: nil, the error godotenv.Read returns for a file, the error of os.Setenv
NoError == [kind |-> "nil", file |-> "", key |-> <<>>]
ReadError(filename) == [kind |-> "read", file |-> filename, key |-> <<>>]
SetenvError(k) == [kind |-> "setenv", file |-> "", key |-> k]

\* os.Setenv: the environment after the call and the error, if any
Setenv(e, k, v) ==
  IF SetenvFails(k, v)
  THEN [env |-> e, err |-> SetenvError(k)]
  ELSE [env |-> [x \in DOMAIN e \cup {k} |-> IF x = k THEN v ELSE e[x]],
        err |-> NoError]

\* Set (and every Set* wrapper) is os.Setenv
Set(e, k, v) == Setenv(e, k, v)

----------------------------------------------------------------------------
(* The mapping of Expand *)

\* the loop over the bytes of the trimmed body: splits it at each "|" whose
\* previous byte is not a backslash; reading the byte before the first one panics
RECURSIVE ScanKey(_, _, _, _, _)
ScanKey(key, i, startIndex, envKeys, withDefault) ==
  IF i > Len(key)
  THEN [panic |-> FALSE, envKeys |-> envKeys, startIndex |-> startIndex,
        withDefault |-> withDefault]
  ELSE IF key[i] = "|"
  THEN IF i = 1
       THEN [panic |-> TRUE, envKeys |-> envKeys, startIndex |-> startIndex,
             withDefault |-> withDefault]
       ELSE IF key[i - 1] # "\\"
       THEN ScanKey(key, i + 1, i + 1,
                    Append(envKeys, SubSeq(key, startIndex, i - 1)), TRUE)
       ELSE ScanKey(key, i + 1, startIndex, envKeys, withDefault)
  ELSE ScanKey(key, i + 1, startIndex, envKeys, withDefault)

\* the value of the first key of envKeys that is set, else defaultValue
RECURSIVE FirstSet(_, _, _)
FirstSet(e, envKeys, defaultValue) ==
  IF envKeys = <<>> THEN defaultValue
  ELSE IF LookupEnv(e, Head(envKeys)).ok THEN LookupEnv(e, Head(envKeys)).value
       ELSE FirstSet(e, Tail(envKeys), defaultValue)

\* lines 361-371: the keys and the default once the body is scanned, then the lookup
ResolveKey(e, key, sc) ==
  IF sc.panic THEN [panic |-> TRUE, out |-> <<>>]
  ELSE IF ~sc.withDefault
  THEN [panic |-> FALSE, out |-> FirstSet(e, <<key>>, <<>>)]
  ELSE [panic |-> FALSE,
        out |-> FirstSet(e, sc.envKeys,
                         ReplaceAllEscapedPipe(SubSeq(key, sc.startIndex, Len(key))))]

\* lines 348-360: a leading "|" is dropped and marks a default; key[0] of an empty
\* body panics
ParseKey(e, trimmed) ==
  IF Len(trimmed) = 0 THEN [panic |-> TRUE, out |-> <<>>]
  ELSE IF trimmed[1] = "|"
  THEN ResolveKey(e, Tail(trimmed), ScanKey(Tail(trimmed), 1, 1, <<>>, TRUE))
  ELSE ResolveKey(e, trimmed, ScanKey(trimmed, 1, 1, <<>>, FALSE))

\* the mapping Expand hands to os.Expand: the body of one placeholder -> its value
ExpandMapping(e, name) == ParseKey(e, TrimSpace(name))

----------------------------------------------------------------------------
(* os.Expand, as Expand and Override call it *)

ShellSpecialVar ==
  {"*", "#", "$", "@", "!", "?", "-", "0", "1", "2", "3", "4", "5", "6", "7", "8", "9"}

AlphaNum ==
  {"_", "0", "1", "2", "3", "4", "5", "6", "7", "8", "9",
   "a", "b", "c", "d", "e", "f", "g", "h", "i", "j", "k", "l", "m",
   "n", "o", "p", "q", "r", "s", "t", "u", "v", "w", "x", "y", "z",
   "A", "B", "C", "D", "E", "F", "G", "H", "I", "J", "K", "L", "M",
   "N", "O", "P", "Q", "R", "S", "T", "U", "V", "W", "X", "Y", "Z"}

isShellSpecialVar(c) == c \in ShellSpecialVar

isAlphaNum(c) == c \in AlphaNum

\* index of the first "}" of s at or after position 2, 0 when there is none
FirstCloseBrace(s) ==
  IF \E i \in 2..Len(s) : s[i] = "}"
  THEN CHOOSE i \in 2..Len(s) : s[i] = "}" /\ \A j \in 2..(i - 1) : s[j] # "}"
  ELSE 0

\* length of the longest alphanumeric prefix of s
AlphaNumPrefix(s) ==
  IF \E i \in 1..Len(s) : ~isAlphaNum(s[i])
  THEN (CHOOSE i \in 1..Len(s) :
          ~isAlphaNum(s[i]) /\ \A j \in 1..(i - 1) : isAlphaNum(s[j])) - 1
  ELSE Len(s)

\* the braced name of s = "{...": c is the index of the first "}", 0 for none
BracedName(s, c) ==
  IF c = 0 THEN [name |-> <<>>, w |-> 1]
  ELSE IF c = 2 THEN [name |-> <<>>, w |-> 2]
  ELSE [name |-> SubSeq(s, 2, c - 1), w |-> c]

\* the first n bytes of s as the name
PrefixName(s, n) == [name |-> SubSeq(s, 1, n), w |-> n]

\* os.getShellName: the name after a "$" and the number of bytes it takes
getShellName(s) ==
  IF s[1] = "{"
  THEN IF Len(s) > 2 /\ isShellSpecialVar(s[2]) /\ s[3] = "}"
       THEN [name |-> <<s[2]>>, w |-> 3]
       ELSE BracedName(s, FirstCloseBrace(s))
  ELSE IF isShellSpecialVar(s[1])
  THEN [name |-> <<s[1]>>, w |-> 1]
  ELSE PrefixName(s, AlphaNumPrefix(s))

\* the mapping os.Expand is called with: the closure of Expand (in Expand), or
\* Expand itself (in Override)
RECURSIVE osExpandLoop(_, _, _, _, _, _, _)
applyMapping(mapping, e, name) ==
  IF mapping = "Expand"
  THEN osExpandLoop(name, 1, 1, <<>>, FALSE, e, "closure")
  ELSE ExpandMapping(e, name)

\* the loop of os.Expand: s[i..j-1] is the text not yet copied, buf what is built,
\* used whether a "$" was met
RECURSIVE osExpandName(_, _, _, _, _, _)
osExpandLoop(s, i, j, buf, used, e, mapping) ==
  IF j > Len(s)
  THEN [panic |-> FALSE,
        out |-> IF used THEN buf \o SubSeq(s, i, Len(s)) ELSE s]
  ELSE IF s[j] = "$" /\ j + 1 <= Len(s)
  THEN osExpandName(s, j, buf \o SubSeq(s, i, j - 1),
                    getShellName(SubSeq(s, j + 1, Len(s))), e, mapping)
  ELSE osExpandLoop(s, i, j + 1, buf, used, e, mapping)

\* the loop goes on after a mapped name, unless the mapping panicked
osExpandMapped(s, next, buf, m, e, mapping) ==
  IF m.panic THEN [panic |-> TRUE, out |-> <<>>]
  ELSE osExpandLoop(s, next, next, buf \o m.out, TRUE, e, mapping)

\* the body of the loop at a "$" at s[j]: sn is the name after it and its width
osExpandName(s, j, buf, sn, e, mapping) ==
  IF sn.name = <<>> /\ sn.w > 0
  THEN osExpandLoop(s, j + sn.w + 1, j + sn.w + 1, buf, TRUE, e, mapping)
  ELSE IF sn.name = <<>>
  THEN osExpandLoop(s, j + sn.w + 1, j + sn.w + 1, buf \o <<"$">>, TRUE, e, mapping)
  ELSE osExpandMapped(s, j + sn.w + 1, buf, applyMapping(mapping, e, sn.name), e,
                      mapping)

osExpand(s, e, mapping) == osExpandLoop(s, 1, 1, <<>>, FALSE, e, mapping)

\* Expand(key): os.Expand with the mapping above
Expand(e, s) == osExpand(s, e, "closure")

----------------------------------------------------------------------------
(* Load and Override *)

\* a Load that skips no key (what Override does)
LoadSkipsNothing(currentKeys, k) == FALSE

\* line 31: a key that was set when Load started is skipped
LoadSkips(currentKeys, k) == k \in currentKeys

\* a loader that undoes the files already applied when a later one fails
RollsBack(start, e) == start

\* lines 28 and 47: on a reader error the call returns at once; the environment
\* stays as the files before left it (start is the environment at the call)
OnReadError(start, e) == e

\* the value committed for one entry: Load expands with Expand,
\* Override with os.Expand(v, Expand)
ExpandEntry(mode, e, v) ==
  IF mode = "Load" THEN Expand(e, v) ELSE osExpand(v, e, "Expand")

\* lines 32-35 and 50-53: the expanded value v is committed with Set; a panic of
\* the expansion or an error of Set ends the call: [err, panic, env]
CommitEntry(e, k, v) ==
  IF v.panic THEN [err |-> NoError, panic |-> TRUE, env |-> e]
  ELSE [err |-> Set(e, k, v.out).err, panic |-> FALSE, env |-> Set(e, k, v.out).env]

\* the loop over one envMap, its entries taken in the order the map iteration
\* yields them: [err, panic, env]
RECURSIVE ApplyEntries(_, _, _, _, _, _)
NextEntry(mode, envMap, order, j, c, currentKeys) ==
  IF c.panic \/ c.err # NoError THEN c
  ELSE ApplyEntries(mode, envMap, order, j + 1, c.env, currentKeys)

ApplyEntries(mode, envMap, order, j, e, currentKeys) ==
  IF j > Len(order) THEN [err |-> NoError, panic |-> FALSE, env |-> e]
  ELSE IF mode = "Load" /\ LoadSkips(currentKeys, order[j])
  THEN ApplyEntries(mode, envMap, order, j + 1, e, currentKeys)
  ELSE NextEntry(mode, envMap, order, j,
                 CommitEntry(e, order[j], ExpandEntry(mode, e, envMap[order[j]])),
                 currentKeys)

\* the loop over the file names: [err, panic, env, reads], reads counting the
\* files handed to godotenv.Read
RECURSIVE LoadFiles(_, _, _, _, _, _, _, _)
\* a Load that takes the keys of the environment anew before each file, so that
\* a key written from one file is skipped in the files after it
NextFileTakesKeysAnew(mode, fsys, filenames, orders, i, start, a, currentKeys) ==
  IF a.panic \/ a.err # NoError
  THEN [err |-> a.err, panic |-> a.panic, env |-> a.env, reads |-> i]
  ELSE LoadFiles(mode, fsys, filenames, orders, i + 1, start, a.env,
                 IF mode = "Load" THEN DOMAIN a.env ELSE currentKeys)

\* lines 27-37: after the entries of file i, the call ends on a panic or an error
\* of Set, else goes on to the next file with the same currentKeys
NextFile(mode, fsys, filenames, orders, i, start, a, currentKeys) ==
  IF a.panic \/ a.err # NoError
  THEN [err |-> a.err, panic |-> a.panic, env |-> a.env, reads |-> i]
  ELSE LoadFiles(mode, fsys, filenames, orders, i + 1, start, a.env, currentKeys)

LoadFiles(mode, fsys, filenames, orders, i, start, e, currentKeys) ==
  IF i > Len(filenames)
  THEN [err |-> NoError, panic |-> FALSE, env |-> e, reads |-> Len(filenames)]
  ELSE IF fsys[filenames[i]].err # NoError
  THEN [err |-> fsys[filenames[i]].err, panic |-> FALSE,
        env |-> OnReadError(start, e), reads |-> i]
  ELSE NextFile(mode, fsys, filenames, orders, i, start,
                ApplyEntries(mode, fsys[filenames[i]].envMap, orders[i], 1, e,
                             currentKeys),
                currentKeys)

\* lines 16-18: Load with no file name loads ".env"
LoadNames(filenames) == IF filenames = <<>> THEN <<".env">> ELSE filenames

\* Load(filenames...): the keys of os.Environ() are taken once, at the start
Load(fsys, e, filenames, orders) ==
  LoadFiles("Load", fsys, LoadNames(filenames), orders, 1, e, e, DOMAIN e)

\* Override(filenames...)
Override(fsys, e, filenames, orders) ==
  LoadFiles("Override", fsys, filenames, orders, 1, e, e, {})

----------------------------------------------------------------------------
(* The loader: one Load or Override from any environment and any files *)

FileNames == {".env", "b.env"}
FileKeys == {<<"A">>, <<"B">>}
\* raw values: plain, a placeholder naming a key, one os.Setenv rejects, a blank body
RawValues == {<<"x">>, <<"$", "{", "A", "}">>, <<Nul>>, <<"$", "{", " ", "}">>}
EnvMaps == UNION {[S -> RawValues] : S \in SUBSET FileKeys}

\* what godotenv.Read(filename) returns: a map, or its error
ReadResults(filename) ==
  {[err |-> NoError, envMap |-> m] : m \in EnvMaps}
    \cup {[err |-> ReadError(filename), envMap |-> <<>>]}

FileSystems ==
  {f \in [FileNames -> UNION {ReadResults(n) : n \in FileNames}] :
     \A n \in FileNames : f[n] \in ReadResults(n)}

LoaderValues == {<<>>, <<"v">>}
LoaderEnvironments == UNION {[S -> LoaderValues] : S \in SUBSET FileKeys}

\* the orders in which ranging over a map with key set S can yield its keys
MapOrders(S) ==
  {o \in [1..Cardinality(S) -> S] : \A i, j \in 1..Cardinality(S) : i # j => o[i] # o[j]}

AnyOrder == UNION {MapOrders(S) : S \in SUBSET FileKeys}

\* one iteration order for each file that is read
OrdersFor(fsys, names) ==
  {o \in [1..Len(names) -> AnyOrder] :
     \A i \in 1..Len(names) : o[i] \in MapOrders(DOMAIN fsys[names[i]].envMap)}

FileNameLists == UNION {[1..n -> FileNames] : n \in 0..MaxFiles}

Init ==
  /\ env \in LoaderEnvironments
  /\ fs \in FileSystems
  /\ lastStrings = <<>>
  /\ call = [op |-> "none"]

\* the call returns (or panics) with r: the environment is as the call left it
Returns(op, filenames, orders, r) ==
  /\ env' = r.env
  /\ call' = [op |-> op, filenames |-> filenames, orders |-> orders,
              pre |-> env, ret |-> r]

LoadCall ==
  /\ call.op = "none"
  /\ \E filenames \in FileNameLists :
       \E orders \in OrdersFor(fs, LoadNames(filenames)) :
         Returns("Load", filenames, orders, Load(fs, env, filenames, orders))
  /\ UNCHANGED <<fs, lastStrings>>

OverrideCall ==
  /\ call.op = "none"
  /\ \E filenames \in FileNameLists :
       \E orders \in OrdersFor(fs, filenames) :
         Returns("Override", filenames, orders, Override(fs, env, filenames, orders))
  /\ UNCHANGED <<fs, lastStrings>>

Next == LoadCall \/ OverrideCall

Spec == Init /\ [][Next]_vars

----------------------------------------------------------------------------
(* The typed accessors *)

\* strings.Join(list, sep)
RECURSIVE StringsJoin(_, _)
StringsJoin(list, sep) ==
  IF Len(list) = 0 THEN <<>>
  ELSE IF Len(list) = 1 THEN list[1]
  ELSE list[1] \o sep \o StringsJoin(Tail(list), sep)

\* strings.Split(s, sep) for a one-byte sep, dropping the empty fields
RECURSIVE SplitDroppingEmpty(_, _, _, _)
SplitDroppingEmpty(s, sep, i, start) ==
  IF i > Len(s)
  THEN IF start > Len(s) THEN <<>> ELSE <<SubSeq(s, start, Len(s))>>
  ELSE IF s[i] = sep
  THEN (IF start = i THEN <<>> ELSE <<SubSeq(s, start, i - 1)>>)
         \o SplitDroppingEmpty(s, sep, i + 1, i + 1)
  ELSE SplitDroppingEmpty(s, sep, i + 1, start)

\* strings.Split(s, sep) for a one-byte sep: one field more than s has seps, from
\* position i on, the field in progress starting at start
RECURSIVE StringsSplit(_, _, _, _)
StringsSplit(s, sep, i, start) ==
  IF i > Len(s) THEN <<SubSeq(s, start, Len(s))>>
  ELSE IF s[i] = sep
  THEN <<SubSeq(s, start, i - 1)>> \o StringsSplit(s, sep, i + 1, i + 1)
  ELSE StringsSplit(s, sep, i + 1, start)

Digits == <<"0", "1", "2", "3", "4", "5", "6", "7", "8", "9">>
IsDigit(c) == \E d \in 1..10 : Digits[d] = c
DigitValue(c) == (CHOOSE d \in 1..10 : Digits[d] = c) - 1

RECURSIVE Decimal(_)
Decimal(s) ==
  IF Len(s) = 0 THEN 0
  ELSE 10 * Decimal(SubSeq(s, 1, Len(s) - 1)) + DigitValue(s[Len(s)])

ConvertError(what) == [kind |-> what, file |-> "", key |-> <<>>]

\* strconv.Atoi on strings short enough not to overflow: an optional sign, then
\* one digit or more
UnsignedAtoi(s, sign) ==
  IF Len(s) > 0 /\ \A i \in 1..Len(s) : IsDigit(s[i])
  THEN [value |-> sign * Decimal(s), err |-> NoError]
  ELSE [value |-> 0, err |-> ConvertError("strconv.Atoi: invalid syntax")]

Atoi(s) ==
  IF Len(s) > 0 /\ s[1] = "-" THEN UnsignedAtoi(Tail(s), -1)
  ELSE IF Len(s) > 0 /\ s[1] = "+" THEN UnsignedAtoi(Tail(s), 1)
  ELSE UnsignedAtoi(s, 1)

\* the convert functions the wrappers pass: strconv.Atoi (GetIntOr), the split of
\* GetStrings and MustGetStrings, and the closure of GetStringsOr
Convert(convert, e, key, s) ==
  IF convert = "Atoi" THEN Atoi(s)
  ELSE IF convert = "Split"
  THEN [value |-> StringsSplit(s, ",", 1, 1), err |-> NoError]
  ELSE IF s = <<>> /\ ~LookupEnv(e, key).ok
  THEN [value |-> <<>>, err |-> ConvertError("env not found")]
  ELSE [value |-> StringsSplit(s, ",", 1, 1), err |-> NoError]

\* SetStrings(key, value)
SetStrings(e, key, value) == Set(e, key, StringsJoin(value, <<",">>))

\* GetT(key, convert)
GetT(e, key, convert) == Convert(convert, e, key, Getenv(e, key))

\* MustGetT(key, convert): the value, or a panic with the error of convert
MustGetT(e, key, convert) ==
  IF GetT(e, key, convert).err = NoError
  THEN [panic |-> FALSE, value |-> GetT(e, key, convert).value]
  ELSE [panic |-> TRUE, value |-> GetT(e, key, convert).value]

\* MustGetStrings(key)
MustGetStrings(e, key) == MustGetT(e, key, "Split")

\* what GetTOr returns once convert has run on the value of a key that is set
Converted(c, defaultValue) ==
  IF c.err # NoError
  THEN [value |-> defaultValue, err |-> c.err, converts |-> 1]
  ELSE [value |-> c.value, err |-> NoError, converts |-> 1]

\* a GetTOr that hands back what convert returned along with its error
GetTOrKeepsConverted(e, key, convert, defaultValue) ==
  IF LookupEnv(e, key).ok
  THEN [value |-> Convert(convert, e, key, LookupEnv(e, key).value).value,
        err |-> Convert(convert, e, key, LookupEnv(e, key).value).err,
        converts |-> 1]
  ELSE [value |-> defaultValue, err |-> NoError, converts |-> 0]

\* GetTOr(key, convert, defaultValue): value, error, and how often convert ran
GetTOr(e, key, convert, defaultValue) ==
  IF LookupEnv(e, key).ok
  THEN Converted(Convert(convert, e, key, LookupEnv(e, key).value), defaultValue)
  ELSE [value |-> defaultValue, err |-> NoError, converts |-> 0]

----------------------------------------------------------------------------
(* The accessors: any sequence of Set, SetStrings, MustGetStrings and GetTOr *)

AccessorKeys == {<<"K">>, <<"L">>}
\* the values Set is called with
SetValues == {<<>>, <<"4", "2">>, <<"a">>}
\* the elements of the lists SetStrings is called with
ListElements == {<<>>, <<"a">>, <<",">>}
StringLists == SeqsUpTo(ListElements, MaxListLen)
\* the default values GetIntOr and GetStringsOr are called with
IntDefault == 456
StringsDefault == <<<<"d">>, <<"e">>>>

InitAccessor ==
  /\ env = <<>>
  /\ fs = <<>>
  /\ lastStrings = <<>>
  /\ call = [op |-> "none"]

\* the lists still standing after key is written by something else than SetStrings
Forget(key) == [k \in DOMAIN lastStrings \ {key} |-> lastStrings[k]]

\* the lists still standing after SetStrings(key, value) has written
Remember(key, value) ==
  [k \in DOMAIN lastStrings \cup {key} |-> IF k = key THEN value ELSE lastStrings[k]]

SetCall ==
  \E key \in AccessorKeys, value \in SetValues :
    /\ env' = Set(env, key, value).env
    /\ call' = [op |-> "Set", key |-> key, value |-> value,
                ret |-> Set(env, key, value).err]
    /\ lastStrings' = Forget(key)
    /\ UNCHANGED fs

SetStringsCall ==
  \E key \in AccessorKeys, value \in StringLists :
    /\ env' = SetStrings(env, key, value).env
    /\ call' = [op |-> "SetStrings", key |-> key, value |-> value,
                ret |-> SetStrings(env, key, value).err]
    /\ lastStrings' = IF SetStrings(env, key, value).err = NoError
                      THEN Remember(key, value) ELSE lastStrings
    /\ UNCHANGED fs

MustGetStringsCall ==
  \E key \in AccessorKeys :
    /\ call' = [op |-> "MustGetStrings", key |-> key, pre |-> env,
                ret |-> MustGetStrings(env, key)]
    /\ UNCHANGED <<env, fs, lastStrings>>

\* value, err := GetTOr(key, convert, defaultValue)
GetTOrReturns(key, convert, defaultValue) ==
  /\ call' = [op |-> "GetTOr", key |-> key, convert |-> convert,
              defaultValue |-> defaultValue, pre |-> env,
              ret |-> GetTOr(env, key, convert, defaultValue)]
  /\ UNCHANGED <<env, fs, lastStrings>>

\* GetTOr as GetIntOr and as GetStringsOr call it
GetTOrCall ==
  \E key \in AccessorKeys :
    \/ GetTOrReturns(key, "Atoi", IntDefault)
    \/ GetTOrReturns(key, "SplitIfFound", StringsDefault)

NextAccessor == SetCall \/ SetStringsCall \/ MustGetStringsCall \/ GetTOrCall

SpecAccessor == InitAccessor /\ [][NextAccessor]_vars

----------------------------------------------------------------------------
(* The expansion engine on its own: Expand applied to one template *)

NoResult == [panic |-> FALSE, out |-> <<>>]

\* the keys the environment may hold at the start, and their values
EnvKeys == {<<"A">>, <<"B">>, <<"A", "|", "B">>}
EnvValues == {<<>>, <<"v">>, <<"w">>}
Environments == UNION {[S -> EnvValues] : S \in SUBSET EnvKeys}

PlainAlphabet == {"$", "{", "}", "|", "\\", "A", "B", " "}
BodyAlphabet == {"|", "\\", "A", "B", " "}

Placeholder(body) == <<"$", "{">> \o body \o <<"}">>

Templates ==
  SeqsUpTo(PlainAlphabet, MaxPlain)
    \cup {Placeholder(b) : b \in SeqsUpTo(BodyAlphabet, MaxBody)}

InitExpand ==
  /\ env \in Environments
  /\ fs = <<>>
  /\ lastStrings = <<>>
  /\ \E t \in Templates :
       call = [op |-> "Expand", arg |-> t, done |-> FALSE, ret |-> NoResult]

\* value := Expand(arg)
ExpandCall ==
  /\ call.op = "Expand"
  /\ ~call.done
  /\ call' = [call EXCEPT !.done = TRUE, !.ret = Expand(env, call.arg)]
  /\ UNCHANGED <<env, fs, lastStrings>>

NextExpand == ExpandCall

SpecExpand == InitExpand /\ [][NextExpand]_vars

Expanded == call.op = "Expand" /\ call.done

----------------------------------------------------------------------------
(* Claims about Expand (checked under SpecExpand) *)

HasDollarBrace(s) == \E i \in 1..(Len(s) - 1) : s[i] = "$" /\ s[i + 1] = "{"

\* C1: every input string that contains no "${" is returned unchanged by Expand,
\* whatever the environment holds, also when it holds a "$" not followed by "{".
C1_IdentityWithoutDollarBrace ==
  (Expanded /\ ~HasDollarBrace(call.arg))
    => (~call.ret.panic /\ call.ret.out = call.arg)

\* C2: Expand never fails: for every input string and every environment it
\* returns a string and does not panic.
C2_ExpandNeverPanics == Expanded => ~call.ret.panic

\* the text between "${" and the closing "}" of a template that is one placeholder
IsPlaceholder(t) ==
  /\ Len(t) >= 3
  /\ t[1] = "$" /\ t[2] = "{" /\ t[Len(t)] = "}"
  /\ \A i \in 3..(Len(t) - 1) : t[i] \in BodyAlphabet
BodyOf(t) == SubSeq(t, 3, Len(t) - 1)

\* the segments of a body: it is cut at every "|" that no backslash precedes
RECURSIVE Segments(_, _, _, _)
Segments(b, i, start, acc) ==
  IF i > Len(b) THEN Append(acc, SubSeq(b, start, Len(b)))
  ELSE IF b[i] = "|" /\ (i = 1 \/ b[i - 1] # "\\")
       THEN Segments(b, i + 1, i + 1, Append(acc, SubSeq(b, start, i - 1)))
       ELSE Segments(b, i + 1, start, acc)

\* what a body resolves to as the grammar has it: all segments but the last are
\* candidate keys when there is an unescaped "|", the last is the default; the
\* value of the first candidate that is set, else the default, else ""
RECURSIVE FirstCandidate(_, _, _)
FirstCandidate(e, keys, d) ==
  IF keys = <<>> THEN d
  ELSE IF Head(keys) \in DOMAIN e THEN e[Head(keys)]
       ELSE FirstCandidate(e, Tail(keys), d)

Resolved(e, body) ==
  LET segs == Segments(TrimSpace(body), 1, 1, <<>>)
      n == Len(segs)
  IN  IF n > 1 THEN FirstCandidate(e, SubSeq(segs, 1, n - 1), segs[n])
      ELSE FirstCandidate(e, segs, <<>>)

\* C3: a placeholder whose body has candidate keys k1..kn and an optional default d
\* is replaced by the value of the first ki that is set (a key set to "" counts),
\* else by d when the body has an unescaped "|" (also a leading one), else by "".
\* Stated for the bodies that hold no backslash and are not blank.
C3_FirstSetKeyElseDefault ==
  (Expanded /\ IsPlaceholder(call.arg)
     /\ ~HasChar(BodyOf(call.arg), "\\")
     /\ TrimSpace(BodyOf(call.arg)) # <<>>)
    => (~call.ret.panic /\ call.ret.out = Resolved(env, BodyOf(call.arg)))

Names == {<<"A">>, <<"B">>}

\* C4: in a body "\|" is a literal "|": the key looked up for a candidate written
\* K\|S is K|S, and a default written a\|b is returned as a|b.
C4_EscapedPipeIsUnescaped ==
  Expanded =>
    /\ \A k \in Names, s \in Names :
         (call.arg = Placeholder(k \o <<"\\", "|">> \o s)
            /\ (k \o <<"|">> \o s) \in DOMAIN env)
           => (~call.ret.panic /\ call.ret.out = env[k \o <<"|">> \o s])
    /\ \A a \in Names, b \in Names :
         call.arg = Placeholder(<<"|">> \o a \o <<"\\", "|">> \o b)
           => (~call.ret.panic /\ call.ret.out = a \o <<"|">> \o b)

----------------------------------------------------------------------------
(* Claims about Load and Override (checked under Spec) *)

Loaded == call.op \in {"Load", "Override"}

\* the file names the call reads, and what the reader yields for the i-th
NamesRead == IF call.op = "Load" THEN LoadNames(call.filenames) ELSE call.filenames
FileRead(i) == fs[NamesRead[i]]

\* C5: Override sets every key K of each file to the expansion of its raw value,
\* the value Expand resolves against the environment, whether or not K was set.
\* Stated for one file with one entry whose raw value Expand does expand.
C5_OverrideSetsExpandedValue ==
  (call.op = "Override" /\ Len(call.filenames) = 1
     /\ call.ret.err = NoError /\ ~call.ret.panic)
    => \A k \in DOMAIN FileRead(1).envMap :
         (DOMAIN FileRead(1).envMap = {k}
            /\ ~Expand(call.pre, FileRead(1).envMap[k]).panic)
           => (k \in DOMAIN env
                 /\ env[k] = Expand(call.pre, FileRead(1).envMap[k]).out)

\* C6: Load is non-destructive: every key present in the environment when Load is
\* called has the same value afterwards, for any number of files and whether Load
\* returns nil or an error (or panics); only keys absent at the start, and defined
\* in a file that was read, are written.
C6_LoadKeepsPresentKeys ==
  call.op = "Load" =>
    /\ \A k \in DOMAIN call.pre : k \in DOMAIN env /\ env[k] = call.pre[k]
    /\ \A k \in DOMAIN env \ DOMAIN call.pre :
         \E i \in 1..call.ret.reads :
           FileRead(i).err = NoError /\ k \in DOMAIN FileRead(i).envMap

\* a Load of two files that returns nil, wrote a key, and left alone a key that
\* was set and that a file defines with another value
C6_Witness ==
  /\ call.op = "Load"
  /\ Len(call.filenames) = 2
  /\ call.ret.err = NoError /\ ~call.ret.panic
  /\ env # call.pre
  /\ \E k \in DOMAIN call.pre : \E i \in 1..2 :
       /\ k \in DOMAIN FileRead(i).envMap
       /\ FileRead(i).envMap[k] = <<"x">>
       /\ call.pre[k] = <<"v">>
       /\ env[k] = <<"v">>

\* the call cut short before its i-th file: what the files before it leave behind
FilesBefore(i) ==
  LoadFiles(call.op, fs, SubSeq(NamesRead, 1, i - 1), call.orders, 1, call.pre,
            call.pre, IF call.op = "Load" THEN DOMAIN call.pre ELSE {})

\* C7: when the reader fails on file i of a Load or Override (the files before i
\* having been read and applied), the call returns that reader error unchanged,
\* reads no file after i, and the environment is exactly what the files before i
\* left: every value written from them is still there, nothing is rolled back.
C7_ReaderErrorStopsWithoutRollback ==
  Loaded =>
    \A i \in 1..Len(NamesRead) :
      (FileRead(i).err # NoError
         /\ FilesBefore(i).err = NoError /\ ~FilesBefore(i).panic)
        => /\ call.ret.err = ReadError(NamesRead[i])
           /\ ~call.ret.panic
           /\ call.ret.reads = i
           /\ env = FilesBefore(i).env
           /\ \A j \in 1..(i - 1) : \A k \in DOMAIN FileRead(j).envMap :
                (call.op = "Override" \/ k \notin DOMAIN call.pre)
                  => k \in DOMAIN env

\* a call on two files: the first was applied and wrote a key, the reader failed
\* on the second
C7_Witness ==
  /\ Loaded
  /\ Len(call.filenames) = 2
  /\ FileRead(1).err = NoError
  /\ FileRead(2).err # NoError
  /\ call.ret.err = ReadError(call.filenames[2])
  /\ env # call.pre

\* C10: the environment after a Load of one file does not depend on the order in
\* which the entries of the file are processed: every order gives every key the
\* value this call gave it.  Stated for the calls that return nil.
C10_LoadOrderIndependent ==
  (call.op = "Load" /\ Len(NamesRead) = 1
     /\ call.ret.err = NoError /\ ~call.ret.panic)
    => \A o \in OrdersFor(fs, NamesRead) :
         Load(fs, call.pre, call.filenames, o).env = env

----------------------------------------------------------------------------
(* Claims about the typed accessors (checked under SpecAccessor) *)

\* what convert yields on the value the key had when GetTOr was called
ConvertedAtCall == Convert(call.convert, call.pre, call.key, call.pre[call.key])

\* C8: GetTOr(key, convert, default) returns (default, nil) without invoking convert
\* when key is absent; (default, err) when key is present (also set to "") and
\* convert fails with err; (v, nil) when key is present and convert succeeds with v.
\* The environment is unchanged in all three cases.
C8_GetTOr ==
  call.op = "GetTOr" =>
    /\ env = call.pre
    /\ call.key \notin DOMAIN call.pre
         => /\ call.ret.value = call.defaultValue
            /\ call.ret.err = NoError
            /\ call.ret.converts = 0
    /\ (call.key \in DOMAIN call.pre /\ ConvertedAtCall.err # NoError)
         => /\ call.ret.value = call.defaultValue
            /\ call.ret.err = ConvertedAtCall.err
    /\ (call.key \in DOMAIN call.pre /\ ConvertedAtCall.err = NoError)
         => /\ call.ret.value = ConvertedAtCall.value
            /\ call.ret.err = NoError

\* GetTOr on a key set to the empty string, with a convert that fails on it
C8_Witness ==
  /\ call.op = "GetTOr"
  /\ call.key \in DOMAIN call.pre
  /\ call.pre[call.key] = <<>>
  /\ call.convert = "Atoi"
  /\ call.ret.err # NoError
  /\ call.ret.value = IntDefault

\* MustGetStrings(K) is the last call, and the last write to K was SetStrings(K, l)
ReadBack == call.op = "MustGetStrings" /\ call.key \in DOMAIN lastStrings

\* C9 as stated: for every list of strings l (the empty list, lists with an empty
\* element and elements holding a comma included), MustGetStrings(K) called after
\* SetStrings(K, l) returns a list equal to l.
C9_StringsRoundTrip ==
  ReadBack => (~call.ret.panic /\ call.ret.value = lastStrings[call.key])

NoComma(l) == \A i \in 1..Len(l) : ~HasChar(l[i], ",")

\* C9 as amended: for every list of strings l that is not empty and has no element
\* holding a comma (empty elements allowed), MustGetStrings(K) called after
\* SetStrings(K, l) returns a list equal to l.
C9_StringsRoundTripNoComma ==
  (ReadBack /\ Len(lastStrings[call.key]) > 0 /\ NoComma(lastStrings[call.key]))
    => (~call.ret.panic /\ call.ret.value = lastStrings[call.key])

\* a list of two elements, one of them empty, read back
C9_Witness ==
  /\ ReadBack
  /\ lastStrings[call.key] = <<<<"a">>, <<>>>>
  /\ call.ret.value = <<<<"a">>, <<>>>>

----------------------------------------------------------------------------
(* Claims about the key snapshot of Load (checked under Spec) *)

\* the files of the call that define key k, and the last of them
FilesDefining(k) ==
  {i \in 1..Len(NamesRead) :
     FileRead(i).err = NoError /\ k \in DOMAIN FileRead(i).envMap}
LastDefining(k) ==
  CHOOSE i \in FilesDefining(k) : \A j \in FilesDefining(k) : j <= i

\* the raw value the last file that defines k gives it
LastRaw(k) == FileRead(LastDefining(k)).envMap[k]

\* the position of k in the order in which the entries of file i were processed
PositionIn(i, k) ==
  CHOOSE p \in 1..Len(call.orders[i]) : call.orders[i][p] = k

\* the environment at the moment the entry k of file i is reached: the files
\* before i applied, then the entries of file i that come before k
EnvAtEntry(i, k) ==
  ApplyEntries("Load", FileRead(i).envMap,
               SubSeq(call.orders[i], 1, PositionIn(i, k) - 1), 1,
               FilesBefore(i).env, DOMAIN call.pre).env

AllParse == \A i \in 1..Len(NamesRead) : FileRead(i).err = NoError

\* a key that was absent when the call started ends with the value of its entry in
\* the last file that defines it, expanded against the environment of that moment
LastFileWins(k) ==
  /\ k \in DOMAIN env
  /\ env[k] = Expand(EnvAtEntry(LastDefining(k), k), LastRaw(k)).out

====
